---- MODULE Spec2Model ----
(***************************************************************************)
(* The policy-gradient loss of rllib/agents/pg/pg_torch_policy.py:         *)
(* pg_torch_loss, pg_loss_stats and the attribute policy.pi_err through    *)
(* which the first hands its result to the second.                         *)
(*                                                                         *)
(* Tensor elements are IEEE-754 scalars.  A finite scalar is modelled as   *)
(* an exact reduced fraction n/d (rounding is not modelled); the three     *)
(* special values nan, +inf and -inf follow the IEEE rules of torch's      *)
(* multiplication, summation, division and negation.                       *)
(***************************************************************************)
EXTENDS Integers, Sequences, FiniteSets, TLC

VARIABLES
    pi_err,       \* pi_err[p]: the attribute policy.pi_err of policy p, or NoAttr
    train_batch,  \* the SampleBatch handed to the calls: field name -> column
    ret,          \* the outcome of the most recent call, as its caller sees it
    returned,     \* returned[p]: what the last successful pg_torch_loss on p returned
    step          \* the position of the training-step driver

vars == <<pi_err, train_batch, ret, returned, step>>

\* ------------------------------------------------------------------ bounds
MaxBatch == 3   \* rows of a batch whose loss is computed on its own
StepRows == 1   \* rows of a batch inside a sequence of calls

\* ----------------------------------------------------------------- scalars
Abs(i) == IF i < 0 THEN -i ELSE i

RECURSIVE GCD(_, _)
GCD(a, b) == IF b = 0 THEN a ELSE GCD(b, a % b)

Fin(n, d) ==
    LET g == GCD(Abs(n), Abs(d))
        s == IF d < 0 THEN -1 ELSE 1
    IN  [k |-> "fin", n |-> s * (n \div g), d |-> s * (d \div g)]

Whole(i) == [k |-> "fin", n |-> i, d |-> 1]
NaN    == [k |-> "nan", n |-> 0, d |-> 1]
PosInf == [k |-> "pinf", n |-> 0, d |-> 1]
NegInf == [k |-> "ninf", n |-> 0, d |-> 1]

IsFin(x) == x.k = "fin"
IsInf(x) == x.k \in {"pinf", "ninf"}
Sign(x) ==
    CASE x.k = "pinf" -> 1
      [] x.k = "ninf" -> -1
      [] x.k = "nan"  -> 0
      [] OTHER -> IF x.n > 0 THEN 1 ELSE IF x.n < 0 THEN -1 ELSE 0
Inf(s) == IF s > 0 THEN PosInf ELSE NegInf

\* x * y of two tensor elements
ScalarMul(x, y) ==
    IF x.k = "nan" \/ y.k = "nan" THEN NaN
    ELSE IF IsInf(x) \/ IsInf(y)
         THEN IF Sign(x) = 0 \/ Sign(y) = 0 THEN NaN ELSE Inf(Sign(x) * Sign(y))
         ELSE Fin(x.n * y.n, x.d * y.d)

\* x + y of two tensor elements
ScalarAdd(x, y) ==
    IF x.k = "nan" \/ y.k = "nan" THEN NaN
    ELSE IF IsInf(x) /\ IsInf(y) THEN (IF x.k = y.k THEN x ELSE NaN)
    ELSE IF IsInf(x) THEN x
    ELSE IF IsInf(y) THEN y
    ELSE Fin(x.n * y.d + y.n * x.d, x.d * y.d)

\* x / c for a count c >= 0
ScalarDivCount(x, c) ==
    IF x.k = "nan" THEN NaN
    ELSE IF c = 0 THEN (IF Sign(x) = 0 THEN NaN ELSE Inf(Sign(x)))
    ELSE IF IsInf(x) THEN x
    ELSE Fin(x.n, x.d * c)

\* -x
ScalarNeg(x) ==
    CASE x.k = "pinf" -> NegInf
      [] x.k = "ninf" -> PosInf
      [] x.k = "nan"  -> NaN
      [] OTHER -> Fin(-x.n, x.d)

\* ------------------------------------------------------------ torch tensors
\* a 1-d tensor is a sequence of scalars, a 0-d tensor is [data |-> scalar]
Tensor0(x) == [data |-> x]

\* mutant: the columns are added instead of multiplied
TorchMulAsAdd(xs, ys) == [i \in 1..Len(xs) |-> ScalarAdd(xs[i], ys[i])]

\* log_probs * advantages: the elementwise product
TorchMul(xs, ys) == [i \in 1..Len(xs) |-> ScalarMul(xs[i], ys[i])]

RECURSIVE TorchSum(_)
TorchSum(xs) ==
    IF xs = <<>> THEN Whole(0) ELSE ScalarAdd(Head(xs), TorchSum(Tail(xs)))

\* mutant: torch.sum in place of torch.mean
TorchMeanAsSum(xs) == [data |-> TorchSum(xs)]

\* torch.mean over all elements: sum / numel (nan for an empty tensor)
TorchMean(xs) == Tensor0(ScalarDivCount(TorchSum(xs), Len(xs)))

\* unary minus on a 0-d tensor
TorchNeg(t) == Tensor0(ScalarNeg(t.data))

\* Tensor.item(): the Python float holding the 0-d tensor's value
Item(t) == t.data

\* ------------------------------------------------------------- the inputs
Policies == {"p1", "p2"}

SampleBatch_ACTIONS       == "actions"
Postprocessing_ADVANTAGES == "advantages"

ActionSpace  == {0, 1}
LogpVals     == {NegInf, Whole(-2), Whole(-1), Whole(0)}
AdvantageVals == {Whole(-1), Whole(0), Whole(1)}

SeqsOfLen(S, k) == [1..k -> S]

\* batches with both columns, aligned, of at most n rows
FullBatches(n) ==
    UNION {{[actions |-> a, advantages |-> g] :
                a \in SeqsOfLen(ActionSpace, k), g \in SeqsOfLen(AdvantageVals, k)} :
           k \in 0..n}

\* batches lacking one of the two columns
PartialBatches(n) ==
    UNION {{[actions |-> a] : a \in SeqsOfLen(ActionSpace, k)}
           \cup {[advantages |-> g] : g \in SeqsOfLen(AdvantageVals, k)} :
           k \in 0..n}

\* The model and the distribution class, as the loss sees them: either one of
\* their three operations raises, or the distribution gives every action of the
\* action space a log-probability.
Stages == {"from_batch", "dist_class", "logp"}
Models ==
    {[raises |-> "none", dist_inputs |-> t] : t \in [ActionSpace -> LogpVals]}
    \cup {[raises |-> s, dist_inputs |-> [a \in ActionSpace |-> Whole(0)]] : s \in Stages}

CollaboratorError(stage) == <<"CollaboratorError", stage>>
KeyError(key)            == <<"KeyError", key>>
AttributeError(name)     == <<"AttributeError", name>>
NoError                  == <<"none", "none">>

NoAttr  == [absent |-> TRUE]   \* the policy object has no attribute pi_err
NoValue == [none |-> TRUE]     \* the call returned nothing (it raised, or no call yet)

hasattr(pe, policy) == "data" \in DOMAIN pe[policy]

\* ------------------------------------------------------------ pg_torch_loss
\* action_dist.logp(actions)
logp(dist_inputs, actions) == [i \in 1..Len(actions) |-> dist_inputs[actions[i]]]

\* mutant: the leading minus is lost
PolicyLossNotNegated(log_probs, advantages) == TorchMean(TorchMul(log_probs, advantages))

\* -torch.mean(log_probs * advantages)
PolicyLoss(log_probs, advantages) ==
    TorchNeg(TorchMean(TorchMul(log_probs, advantages)))

\* mutant: the attribute is only set when the policy has none yet
SetPiErrKeepFirst(pe, policy, t) ==
    IF "data" \in DOMAIN pe[policy] THEN pe ELSE [pe EXCEPT ![policy] = t]

\* mutant: the attribute is set on the class, so on every policy
SetPiErrOnClass(pe, policy, t) == [q \in DOMAIN pe |-> t]

\* policy.pi_err = t
SetPiErr(pe, policy, t) == [pe EXCEPT ![policy] = t]

\* mutant: the exception is caught and a zero loss returned in its place
PropagateAsDefault(pe, policy, batch, e) ==
    [pi_err |-> pe, train_batch |-> batch, kind |-> "return",
     value |-> [data |-> Whole(0)], error |-> <<"none", "none">>]

\* mutant: return -policy.pi_err, the minus moved from the assignment
ReturnPiErrNegated(pe, policy) == [data |-> ScalarNeg(pe[policy].data)]

\* return policy.pi_err
ReturnPiErr(pe, policy) == pe[policy]

\* An exception leaves the function at the statement that raised it: nothing
\* in the function catches it, so the caller sees it and no later statement runs.
Propagate(pe, policy, batch, e) ==
    [pi_err |-> pe, train_batch |-> batch, kind |-> "raise",
     value |-> NoValue, error |-> e]

\* mutant: pi_err is assigned the mean log-probability before the advantages
\* are read, and multiplied into the loss afterwards
LossEvalStoreEarly(pe, policy, m, batch) ==
    IF m.raises \in {"from_batch", "dist_class"}
    THEN [pi_err |-> pe, train_batch |-> batch, kind |-> "raise",
          value |-> NoValue, error |-> CollaboratorError(m.raises)]
    ELSE IF SampleBatch_ACTIONS \notin DOMAIN batch
    THEN [pi_err |-> pe, train_batch |-> batch, kind |-> "raise",
          value |-> NoValue, error |-> KeyError(SampleBatch_ACTIONS)]
    ELSE IF m.raises = "logp"
    THEN [pi_err |-> pe, train_batch |-> batch, kind |-> "raise",
          value |-> NoValue, error |-> CollaboratorError("logp")]
    ELSE LET log_probs == logp(m.dist_inputs, batch[SampleBatch_ACTIONS])
             early     == [pe EXCEPT ![policy] = TorchMean(log_probs)]
         IN  IF Postprocessing_ADVANTAGES \notin DOMAIN batch
             THEN [pi_err |-> early, train_batch |-> batch, kind |-> "raise",
                   value |-> NoValue, error |-> KeyError(Postprocessing_ADVANTAGES)]
             ELSE LET stored == [pe EXCEPT ![policy] =
                                   PolicyLoss(log_probs, batch[Postprocessing_ADVANTAGES])]
                  IN  [pi_err |-> stored, train_batch |-> batch, kind |-> "return",
                       value |-> stored[policy], error |-> NoError]

\* pg_torch_loss(policy, model, dist_class, train_batch): the state it leaves
\* and what its caller gets
LossEval(pe, policy, m, batch) ==
    IF m.raises = "from_batch" THEN Propagate(pe, policy, batch, CollaboratorError("from_batch"))
    ELSE IF m.raises = "dist_class" THEN Propagate(pe, policy, batch, CollaboratorError("dist_class"))
    ELSE IF SampleBatch_ACTIONS \notin DOMAIN batch THEN Propagate(pe, policy, batch, KeyError(SampleBatch_ACTIONS))
    ELSE IF m.raises = "logp" THEN Propagate(pe, policy, batch, CollaboratorError("logp"))
    ELSE IF Postprocessing_ADVANTAGES \notin DOMAIN batch THEN Propagate(pe, policy, batch, KeyError(Postprocessing_ADVANTAGES))
    ELSE LET log_probs == logp(m.dist_inputs, batch[SampleBatch_ACTIONS])
             stored    == SetPiErr(pe, policy, PolicyLoss(log_probs, batch[Postprocessing_ADVANTAGES]))
         IN  [pi_err |-> stored, train_batch |-> batch, kind |-> "return",
              value |-> ReturnPiErr(stored, policy), error |-> NoError]

\* ------------------------------------------------------------ pg_loss_stats
\* mutant: the stats carry a second entry
StatsEvalExtraEntry(pe, policy, batch) ==
    IF hasattr(pe, policy)
    THEN [pi_err |-> pe, train_batch |-> batch, kind |-> "return",
          value |-> [policy_loss |-> Item(pe[policy]), total_loss |-> Item(pe[policy])],
          error |-> NoError]
    ELSE Propagate(pe, policy, batch, AttributeError("pi_err"))

\* mutant: getattr(policy, "pi_err", 0.0) in place of policy.pi_err
StatsEvalDefaultZero(pe, policy, batch) ==
    [pi_err |-> pe, train_batch |-> batch, kind |-> "return",
     value |-> [policy_loss |-> IF hasattr(pe, policy) THEN Item(pe[policy]) ELSE Whole(0)],
     error |-> NoError]

\* pg_loss_stats(policy, train_batch): the state it leaves and what its caller gets
StatsEval(pe, policy, batch) ==
    IF hasattr(pe, policy)
    THEN [pi_err |-> pe, train_batch |-> batch, kind |-> "return",
          value |-> [policy_loss |-> Item(pe[policy])], error |-> NoError]
    ELSE Propagate(pe, policy, batch, AttributeError("pi_err"))

\* ------------------------------------------------------------------ actions
Outcome(op, policy, r) ==
    [op |-> op, policy |-> policy, kind |-> r.kind, value |-> r.value, error |-> r.error]

pg_torch_loss(policy, m) ==
    \E r \in {LossEval(pi_err, policy, m, train_batch)} :
    /\ pi_err' = r.pi_err
    /\ train_batch' = r.train_batch
    /\ ret' = Outcome("pg_torch_loss", policy, r)
    /\ returned' = IF r.kind = "return"
                   THEN [returned EXCEPT ![policy] = r.value]
                   ELSE returned

pg_loss_stats(policy) ==
    \E r \in {StatsEval(pi_err, policy, train_batch)} :
    /\ pi_err' = r.pi_err
    /\ train_batch' = r.train_batch
    /\ ret' = Outcome("pg_loss_stats", policy, r)
    /\ returned' = returned

Idle == [phase |-> "idle", policy |-> "none"]

Fresh ==
    /\ pi_err = [p \in Policies |-> NoAttr]
    /\ returned = [p \in Policies |-> NoValue]
    /\ ret = [op |-> "none", policy |-> "none", kind |-> "none",
              value |-> NoValue, error |-> NoError]
    /\ step = Idle

\* ---- the two functions called in any order, on any policy.  The batch is the
\* one the behaviour starts with; the model is another one at every call, as
\* training updates it between calls.
StepBatches == FullBatches(StepRows) \cup PartialBatches(StepRows)

Init == Fresh /\ train_batch \in StepBatches

LossCall == \E p \in Policies, m \in Models : pg_torch_loss(p, m) /\ UNCHANGED step

StatsCall == \E p \in Policies : pg_loss_stats(p) /\ UNCHANGED step

Next == LossCall \/ StatsCall

Spec == Init /\ [][Next]_vars

\* ---- one loss computation, on any batch that has both columns
InitLoss == Fresh /\ train_batch \in FullBatches(MaxBatch)

LossOnce ==
    /\ ret.op = "none"
    /\ \E p \in Policies, m \in Models : pg_torch_loss(p, m)
    /\ UNCHANGED step

NextLoss == LossOnce

SpecLoss == InitLoss /\ [][NextLoss]_vars

\* ---- the training step of the policy built by build_torch_policy: on a new
\* batch it calls the loss function, and the stats function on the same policy
\* and batch once the loss has returned; a loss that raises aborts the step
NoBatch == [none |-> TRUE]

\* mutant: the step goes on to the stats although the loss raised
AfterLossAlwaysStats(kind) == "stats"

AfterLoss(kind) == IF kind = "return" THEN "stats" ELSE "end"

InitStep == Fresh /\ train_batch = NoBatch

StepBegin ==
    /\ step.phase = "idle"
    /\ \E p \in Policies : step' = [phase |-> "loss", policy |-> p]
    /\ train_batch' \in StepBatches
    /\ ret' = [op |-> "none", policy |-> "none", kind |-> "none",
               value |-> NoValue, error |-> NoError]
    /\ UNCHANGED <<pi_err, returned>>

StepLoss ==
    /\ step.phase = "loss"
    /\ \E m \in Models : pg_torch_loss(step.policy, m)
    /\ step' = [step EXCEPT !.phase = AfterLoss(ret'.kind)]

StepStats ==
    /\ step.phase = "stats"
    /\ pg_loss_stats(step.policy)
    /\ step' = [step EXCEPT !.phase = "end"]

StepEnd ==
    /\ step.phase = "end"
    /\ step' = Idle
    /\ train_batch' = NoBatch
    /\ UNCHANGED <<pi_err, ret, returned>>

NextStep == StepBegin \/ StepLoss \/ StepStats \/ StepEnd

SpecStep == InitStep /\ [][NextStep]_vars

\* ===================================================================== claims
\* What the caller of pg_torch_loss(p, m) sees of its inputs
Rows(batch) == Len(batch[SampleBatch_ACTIONS])
IsFull(batch) == DOMAIN batch = {SampleBatch_ACTIONS, Postprocessing_ADVANTAGES}
LogpOf(m, batch, i) == m.dist_inputs[batch[SampleBatch_ACTIONS][i]]
AdvOf(batch, i) == batch[Postprocessing_ADVANTAGES][i]
Computes(m, batch) == m.raises = "none" /\ IsFull(batch) /\ Rows(batch) >= 1

\* the step is the call pg_torch_loss(p, m), pg_loss_stats(p)
IsLossCall(p, m) == ret'.op = "pg_torch_loss" /\ ret'.policy = p /\ pg_torch_loss(p, m)
IsStatsCall(p) == ret'.op = "pg_loss_stats" /\ ret'.policy = p /\ pg_loss_stats(p)

\* every step of Spec is a call, which ret' names
CallsLoss(p) == ret'.op = "pg_torch_loss" /\ ret'.policy = p
CallsStats(p) == ret'.op = "pg_loss_stats" /\ ret'.policy = p

\* the sum over the rows in I of x(i) * y(i), for whole-number columns
RECURSIVE SumProd(_, _, _)
SumProd(I, m, batch) ==
    IF I = {} THEN 0
    ELSE LET i == CHOOSE j \in I : TRUE
         IN  LogpOf(m, batch, i).n * AdvOf(batch, i).n + SumProd(I \ {i}, m, batch)

RECURSIVE SumAdv(_, _)
SumAdv(I, batch) ==
    IF I = {} THEN 0
    ELSE LET i == CHOOSE j \in I : TRUE IN AdvOf(batch, i).n + SumAdv(I \ {i}, batch)

\* v is -(1/n) * sum_i logp(A_i) * G_i in IEEE arithmetic: an infinite
\* log-probability times a zero advantage is nan, as is the sum of terms that
\* are infinite with both signs; otherwise an infinite term decides the sign.
IsNegatedMean(v, m, batch) ==
    LET I == 1..Rows(batch)
        inf(i)  == IsInf(LogpOf(m, batch, i)) \/ IsInf(AdvOf(batch, i))
        sgn(i)  == Sign(LogpOf(m, batch, i)) * Sign(AdvOf(batch, i))
        undef   == \E i \in I : inf(i) /\ sgn(i) = 0
        up      == \E i \in I : inf(i) /\ sgn(i) > 0
        down    == \E i \in I : inf(i) /\ sgn(i) < 0
    IN  IF undef \/ (up /\ down) THEN v = NaN
        ELSE IF up THEN v = NegInf
        ELSE IF down THEN v = PosInf
        ELSE /\ v.k = "fin" /\ v.d > 0 /\ GCD(Abs(v.n), v.d) = 1
             /\ v.n * Rows(batch) = -(v.d * SumProd(I, m, batch))

\* C1: for every non-empty batch and every distribution, pg_torch_loss returns
\* exactly -(1/n) * sum_i logp(A_i) * G_i.
C1_LossIsNegatedMean ==
    [][\A p \in Policies, m \in Models :
          (Computes(m, train_batch) /\ IsLossCall(p, m))
              => /\ ret'.kind = "return"
                 /\ DOMAIN ret'.value = {"data"}
                 /\ IsNegatedMean(ret'.value.data, m, train_batch)]_vars

\* a three-row batch whose loss is a proper fraction with denominator 3
C1_Witness ==
    /\ ret.op = "pg_torch_loss" /\ ret.kind = "return"
    /\ Rows(train_batch) = 3
    /\ ret.value.data.k = "fin" /\ ret.value.data.d = 3

AllAdvZero(batch) == \A i \in 1..Rows(batch) : AdvOf(batch, i) = Whole(0)
AllLogpFinite(m, batch) == \A i \in 1..Rows(batch) : IsFin(LogpOf(m, batch, i))

\* C6 as stated: if every advantage is 0 the loss is 0, whatever the
\* log-probabilities of the recorded actions.
C6_ZeroAdvantagesAnyLogp ==
    [][\A p \in Policies, m \in Models :
          (Computes(m, train_batch) /\ IsLossCall(p, m) /\ AllAdvZero(train_batch))
              => ret'.kind = "return" /\ ret'.value = Tensor0(Whole(0))]_vars

\* C6 amended: if every advantage is 0 and every recorded action has a finite
\* log-probability the loss is 0; an action of log-probability -inf makes it nan.
C6_ZeroAdvantagesFiniteLogp ==
    [][\A p \in Policies, m \in Models :
          (Computes(m, train_batch) /\ IsLossCall(p, m) /\ AllAdvZero(train_batch))
              => /\ ret'.kind = "return"
                 /\ ret'.value = IF AllLogpFinite(m, train_batch)
                                 THEN Tensor0(Whole(0)) ELSE Tensor0(NaN)]_vars

\* a batch of two or more rows, all advantages 0, with loss 0
C6_Witness ==
    /\ ret.op = "pg_torch_loss" /\ ret.kind = "return"
    /\ Rows(train_batch) >= 2 /\ AllAdvZero(train_batch)
    /\ ret.value = Tensor0(Whole(0))

SameLogp(m, batch) ==
    \A i, j \in 1..Rows(batch) : LogpOf(m, batch, i) = LogpOf(m, batch, j)

\* -c * S / n
NegCSOverN(c, S, n) == ScalarNeg(ScalarDivCount(ScalarMul(c, Whole(S)), n))

\* C7 as stated: if all recorded actions have the same log-probability c and
\* the advantages sum to S, the loss is -c*S/n.
C7_ConstantLogpAny ==
    [][\A p \in Policies, m \in Models :
          (Computes(m, train_batch) /\ IsLossCall(p, m) /\ SameLogp(m, train_batch))
              => /\ ret'.kind = "return"
                 /\ ret'.value = Tensor0(NegCSOverN(LogpOf(m, train_batch, 1),
                                    SumAdv(1..Rows(train_batch), train_batch),
                                    Rows(train_batch)))]_vars

\* C7 amended: if all recorded actions have the same finite log-probability c
\* and the advantages sum to S, the loss is -c*S/n, a function of c, S and n alone.
C7_ConstantFiniteLogp ==
    [][\A p \in Policies, m \in Models :
          (Computes(m, train_batch) /\ IsLossCall(p, m) /\ SameLogp(m, train_batch)
             /\ IsFin(LogpOf(m, train_batch, 1)))
              => /\ ret'.kind = "return"
                 /\ ret'.value = Tensor0(NegCSOverN(LogpOf(m, train_batch, 1),
                                    SumAdv(1..Rows(train_batch), train_batch),
                                    Rows(train_batch)))]_vars

\* three rows of one action, advantages 1, 1, 0 and loss 4/3: c = -2, S = 2, n = 3
C7_Witness ==
    /\ ret.op = "pg_torch_loss" /\ ret.kind = "return"
    /\ Rows(train_batch) = 3
    /\ \A i \in 1..3 : train_batch[SampleBatch_ACTIONS][i] = 0
    /\ train_batch[Postprocessing_ADVANTAGES] = <<Whole(1), Whole(1), Whole(0)>>
    /\ ret.value = Tensor0(Fin(4, 3))

\* C2: pg_loss_stats called on a policy after a successful pg_torch_loss on it
\* returns a mapping with the one key "policy_loss", whose value is the loss
\* that call returned.
C2_StatsReportLastLoss ==
    (ret.op = "pg_loss_stats" /\ returned[ret.policy] # NoValue)
        => /\ ret.kind = "return"
           /\ DOMAIN ret.value = {"policy_loss"}
           /\ ret.value.policy_loss = returned[ret.policy].data

\* the stats of one policy report a non-zero finite loss while the other policy
\* holds a different one
C2_Witness ==
    /\ ret.op = "pg_loss_stats" /\ ret.kind = "return"
    /\ ret.value.policy_loss \in {Whole(1), Whole(-1), Whole(2), Whole(-2)}
    /\ \E q \in Policies \ {ret.policy} :
          returned[q] # NoValue /\ returned[q].data # ret.value.policy_loss

\* C3: pg_loss_stats on a policy on which pg_torch_loss has never completed
\* raises the missing-attribute error and returns no mapping.
C3_StatsOnFreshPolicyRaises ==
    (ret.op = "pg_loss_stats" /\ returned[ret.policy] = NoValue)
        => /\ ret.kind = "raise"
           /\ ret.error = AttributeError("pi_err")
           /\ ret.value = NoValue

\* the stats of a fresh policy raise while the other policy has a loss stored
C3_Witness ==
    /\ ret.op = "pg_loss_stats" /\ ret.kind = "raise"
    /\ returned[ret.policy] = NoValue
    /\ \E q \in Policies : hasattr(pi_err, q)

\* C5: a policy that carries pi_err carries the tensor the most recent
\* successful pg_torch_loss on it returned; a successful call returns what it
\* stores.
C5_PiErrIsLastReturnedLoss ==
    /\ \A p \in Policies :
          /\ hasattr(pi_err, p) <=> returned[p] # NoValue
          /\ hasattr(pi_err, p) => pi_err[p] = returned[p]
    /\ (ret.op = "pg_torch_loss" /\ ret.kind = "return")
          => (ret.value = pi_err[ret.policy] /\ DOMAIN ret.value = {"data"})

\* both policies carry a loss, the two differ, and the last call was a loss
C5_Witness ==
    /\ ret.op = "pg_torch_loss" /\ ret.kind = "return"
    /\ \A p \in Policies : hasattr(pi_err, p)
    /\ pi_err["p1"] # pi_err["p2"]

\* the failures a call pg_torch_loss(p, m) on the batch meets
Failures(m, batch) ==
    {CollaboratorError(st) : st \in {m.raises} \ {"none"}}
    \cup {KeyError(key) : key \in {SampleBatch_ACTIONS, Postprocessing_ADVANTAGES} \ DOMAIN batch}

\* C8: a failure of the model, the distribution, the log-probability or a
\* missing batch field ends pg_torch_loss with that very error, and a missing
\* pi_err ends pg_loss_stats with the attribute error: no call that meets a
\* failure returns a value.
C8_FailuresPropagate ==
    [][/\ \A p \in Policies, m \in Models :
             (Failures(m, train_batch) # {} /\ IsLossCall(p, m))
                 => /\ ret'.kind = "raise"
                    /\ ret'.value = NoValue
                    /\ ret'.error \in Failures(m, train_batch)
       /\ \A p \in Policies :
             (IsStatsCall(p) /\ ~hasattr(pi_err, p))
                 => /\ ret'.kind = "raise"
                    /\ ret'.value = NoValue
                    /\ ret'.error = AttributeError("pi_err")]_vars

\* the log-probability operation raised on a batch that has both columns
C8_Witness ==
    /\ ret.op = "pg_torch_loss" /\ ret.kind = "raise"
    /\ ret.error = CollaboratorError("logp")
    /\ IsFull(train_batch)

\* C9: pg_torch_loss changes nothing but the pi_err of the policy it is given;
\* pg_loss_stats changes nothing, so that repeating it gives the same mapping.
C9_OnlyPiErrOfThePolicyChanges ==
    [][/\ \A p \in Policies :
             CallsLoss(p)
                 => /\ train_batch' = train_batch
                    /\ \A q \in Policies \ {p} : pi_err'[q] = pi_err[q]
       /\ \A p \in Policies :
             CallsStats(p)
                 => /\ train_batch' = train_batch
                    /\ pi_err' = pi_err
                    /\ (ret.op = "pg_loss_stats" /\ ret.policy = p) => ret' = ret]_vars

\* a loss was stored on p1 while p2 keeps a different, finite one
C9_Witness ==
    /\ ret.op = "pg_torch_loss" /\ ret.kind = "return" /\ ret.policy = "p1"
    /\ hasattr(pi_err, "p2") /\ IsFin(pi_err["p2"].data)
    /\ pi_err["p2"] # pi_err["p1"]

\* C10: a pg_torch_loss call that raises leaves pi_err as it was.
C10_FailedLossKeepsPiErr ==
    [][\A p \in Policies, m \in Models :
          (ret'.kind = "raise" /\ IsLossCall(p, m)) => pi_err' = pi_err]_vars

\* the distribution could not be built and the policy still carries its earlier loss
C10_Witness ==
    /\ ret.op = "pg_torch_loss" /\ ret.kind = "raise"
    /\ ret.error = CollaboratorError("dist_class")
    /\ hasattr(pi_err, ret.policy) /\ pi_err[ret.policy] = returned[ret.policy]

====
